---------------------------- MODULE Spec2Model ----------------------------
(***************************************************************************)
(* A model of sync-fs-at.py: the export of surveys and their responses     *)
(* from Firestore into one workbook, and its upload.                       *)
(*                                                                         *)
(* A Python dict is a function whose DOMAIN is its set of keys, so that    *)
(* dict.get(k, default), `k in d` and d[k] (a KeyError when k is missing)  *)
(* are told apart.  A Python list is a sequence.  A function that can      *)
(* raise returns a record whose field `raised` says whether it did.        *)
(***************************************************************************)
EXTENDS Integers, Sequences, FiniteSets, TLC

VARIABLES
    pc,                 \* the position of the run
    doc,                \* flatten_document: doc_snapshot.to_dict()
    doc_id,             \* flatten_document: doc_snapshot.id
    order,              \* flatten_document: the order the dicts are iterated in
    flattened_doc,      \* flatten_document: its result
    surveys,            \* data_dict['surveys']: the flattened survey records
    responses,          \* data_dict['responses']: the flattened response records
    processed_surveys,  \* the result of process_surveys
    survey_id,          \* process_responses: its survey_id argument
    survey,             \* process_responses: its survey argument
    joined,             \* the result of process_responses
    sheets,             \* main: the list of (name, headers, responses)
    wb,                 \* write_to_excel: the workbook
    files,              \* the output files written by the run
    env,                \* the environment, as read by write_to_excel
    uploads,            \* the files uploaded to the Drive folder
    error,              \* the exception that ended the run, "" when none
    steps               \* the steps of main executed so far, in order

vars == <<pc, doc, doc_id, order, flattened_doc, surveys, responses,
          processed_surveys, survey_id, survey, joined, sheets, wb, files,
          env, uploads, error, steps>>

----------------------------------------------------------------------------
(* Python dicts and lists *)

\* The empty dict, {}.
EmptyDict == [k \in {} |-> ""]

\* d.get(k, default)
Get(d, k, default) == IF k \in DOMAIN d THEN d[k] ELSE default

\* dict(list(a.items()) + list(b.items())): a later pair replaces an earlier one.
Update(a, b) ==
    [k \in DOMAIN a \cup DOMAIN b |-> IF k \in DOMAIN b THEN b[k] ELSE a[k]]

\* All sequences over S of length lo..hi.
SeqsOf(S, lo, hi) == UNION {[1..n -> S] : n \in lo..hi}

\* All subsets of S of at most n elements.
SetsUpTo(S, n) == UNION {{{f[i] : i \in 1..m} : f \in [1..m -> S]} : m \in 0..n}

\* The dicts holding the key k, with a value of vals, or not holding it.
OptField(k, vals) == {EmptyDict} \cup {k :> v : v \in vals}

\* The dicts made of one dict of A and one of B (their keys are disjoint).
Both(A, B) == {Update(a, b) : a \in A, b \in B}

\* None, where the program compares it with strings.
None == "None"

\* datetime.isoformat(): the timestamp t rendered as a string.
isoformat(t) == "iso:" \o t

\* An insertion-ordered dict is the sequence of its items; d[k] = v replaces
\* the value of k where it stands, or appends the item.
SetItem(items, k, v) ==
    IF \E i \in DOMAIN items : items[i].key = k
    THEN [i \in DOMAIN items |->
            IF items[i].key = k THEN [key |-> k, value |-> v] ELSE items[i]]
    ELSE Append(items, [key |-> k, value |-> v])

HasKey(items, k) == \E i \in DOMAIN items : items[i].key = k
ItemOf(items, k) == items[CHOOSE i \in DOMAIN items : items[i].key = k].value

RECURSIVE Reverse(_)
Reverse(s) == IF s = <<>> THEN <<>> ELSE Append(Reverse(Tail(s)), Head(s))

----------------------------------------------------------------------------
(* flatten_document *)

\* The field names of the raw records; one of them holds the separator, and
\* a record may have a top-level field named `id`.
Keys == {"a", "b", "a.b"}
DottedKeys == {"a.b"}
KeyOrder == <<"a", "a.b", "b", "id">>
DocIds == {"d1"}

MaxDepth == 2
MaxLeaves == 2

\* A value of a raw record is a scalar, [leaf |-> v], or a nested mapping,
\* [map |-> d].
IsDict(v) == "map" \in DOMAIN v

\* The key paths of the leaves of a record: no path is a prefix of another,
\* since a field is either a scalar or a mapping.
Paths == SeqsOf(Keys, 1, MaxDepth) \cup {<<"id">>}
IsPrefix(p, q) == Len(p) < Len(q) /\ SubSeq(q, 1, Len(p)) = p
LeafSets ==
    {P \in SetsUpTo(Paths, MaxLeaves) : \A p, q \in P : ~IsPrefix(p, q)}

\* The scalar stored at a leaf: one value per leaf, none of them a document id.
RECURSIVE LeafValue(_)
LeafValue(p) ==
    IF Len(p) = 1 THEN "v/" \o p[1] ELSE LeafValue(SubSeq(p, 1, Len(p) - 1)) \o "/" \o p[Len(p)]

\* The nested record whose leaves are at the paths P (each relative to `at`).
RECURSIVE RecordOf(_, _)
RecordOf(P, at) ==
    [k \in {p[1] : p \in P} |->
        IF <<k>> \in P
        THEN [leaf |-> LeafValue(Append(at, k))]
        ELSE [map |-> RecordOf({Tail(p) : p \in {q \in P : q[1] = k}}, Append(at, k))]]

\* nested_dict.items(), in the order the dict is iterated.
Items(nested_dict, ord) == SelectSeq(ord, LAMBDA k : k \in DOMAIN nested_dict)

\* The key of a nested field without the keys above it.
NewKeyNoPrefix(parent_key, sep, k) == k

\* new_key = f"{parent_key}{sep}{k}" if parent_key else k
NewKey(parent_key, sep, k) ==
    IF parent_key # "" THEN parent_key \o sep \o k ELSE k

RECURSIVE flatten(_, _, _, _), flatten_items(_, _, _, _, _)
\* The loop of flatten over the keys `ks`, and dict(items).
flatten_items(nested_dict, ks, parent_key, sep, ord) ==
    IF ks = <<>> THEN EmptyDict
    ELSE LET k == Head(ks)
             v == nested_dict[k]
             new_key == NewKey(parent_key, sep, k)
             items == IF IsDict(v)
                      THEN flatten(v.map, new_key, sep, ord)
                      ELSE (new_key :> v)
         IN  Update(items, flatten_items(nested_dict, Tail(ks), parent_key, sep, ord))

flatten(nested_dict, parent_key, sep, ord) ==
    flatten_items(nested_dict, Items(nested_dict, ord), parent_key, sep, ord)

flatten_document(d, id, ord) ==
    Update(flatten(d, "", ".", ord), "id" :> [leaf |-> id])

----------------------------------------------------------------------------
(* process_surveys *)

\* X.get('he', X.get('en', '')), for the keys he and en of d.
ResolveLocalized(d, he, en) == Get(d, he, Get(d, en, ""))

\* The body of the loop over survey.get('questions', []).
ProcessQuestion(question) ==
    LET text == Get(question, "text", EmptyDict)
        question_text == ResolveLocalized(text, "he", "en")
    IN  [id |-> Get(question, "id", None), text |-> question_text]

ProcessQuestions(survey_doc) ==
    LET qs == Get(survey_doc, "questions", <<>>)
    IN  [i \in DOMAIN qs |-> ProcessQuestion(qs[i])]

\* if not name: continue
NameMissing(name) == name = ""

\* A survey without questions is kept.
NoQuestionsNever(questions) == FALSE

\* if not questions: continue
NoQuestions(questions) == questions = <<>>

\* The loop of process_surveys over `rest`, `acc` being processed_surveys so
\* far.  survey['creationDateTime'] raises KeyError when the field is missing.
RECURSIVE process_surveys_loop(_, _)
process_surveys_loop(rest, acc) ==
    IF rest = <<>> THEN [raised |-> FALSE, value |-> acc]
    ELSE LET s == Head(rest)
             name == ResolveLocalized(s, "name.he", "name.en")
             description == ResolveLocalized(s, "description.he", "description.en")
             questions == ProcessQuestions(s)
         IN  IF NameMissing(name) THEN process_surveys_loop(Tail(rest), acc)
             ELSE IF NoQuestions(questions) THEN process_surveys_loop(Tail(rest), acc)
             ELSE IF "creationDateTime" \notin DOMAIN s
                  THEN [raised |-> TRUE, value |-> <<>>]
             ELSE process_surveys_loop(Tail(rest),
                      SetItem(acc, s["id"],
                              [name |-> name,
                               description |-> description,
                               created_at |-> isoformat(s["creationDateTime"]),
                               questions |-> questions]))

process_surveys(raw_surveys) == process_surveys_loop(raw_surveys, <<>>)

----------------------------------------------------------------------------
(* process_responses *)

\* str(x): a coordinate is a number, an answer value already is a string.
StrOfNumber(n) == ToString(n)
StrOfText(x) == x

\* ['time', 'lat', 'lon'] + [q['text'] for q in survey['questions']]
Headers(survey_rec) ==
    <<"time", "lat", "lon">> \o
    [j \in DOMAIN survey_rec.questions |-> survey_rec.questions[j].text]

\* if response['surveyId'] != survey_id: continue
WrongSurvey(response, id) == response["surveyId"] # id

\* A response without latitude is not skipped.
MissingLatitudeNever(response) == FALSE

\* if 'coordinates.latitude' not in response: continue
MissingLatitude(response) == "coordinates.latitude" \notin DOMAIN response

\* [a for a in response_answers if a['questionId'] == question['id']]
MatchingAnswers(response_answers, question) ==
    SelectSeq(response_answers, LAMBDA a : a["questionId"] = question.id)

\* The first of several matching answers is taken.
AtLeastOne(answer) == Len(answer) >= 1

\* if len(answer) == 1
ExactlyOne(answer) == Len(answer) = 1

\* The loop over survey['questions'], from the row `answers`.
RECURSIVE AnswerQuestions(_, _, _)
AnswerQuestions(questions, response_answers, answers) ==
    IF questions = <<>> THEN answers
    ELSE LET question == Head(questions)
             answer == MatchingAnswers(response_answers, question)
         IN  AnswerQuestions(Tail(questions), response_answers,
                 IF ExactlyOne(answer)
                 THEN Update(answers, question.text :> StrOfText(answer[1]["response"]))
                 ELSE answers)

\* The fields the row of a response reads with response[...], a KeyError when
\* one is missing.
RowFields == {"submittedTs", "coordinates.latitude", "coordinates.longitude"}

\* The row of one response that was not skipped.
AnswerRow(response, survey_rec) ==
    AnswerQuestions(survey_rec.questions, Get(response, "responses", <<>>),
        [k \in {"time", "lat", "lon"} |->
            CASE k = "time" -> isoformat(response["submittedTs"])
              [] k = "lat" -> StrOfNumber(response["coordinates.latitude"])
              [] k = "lon" -> StrOfNumber(response["coordinates.longitude"])])

\* The loop of process_responses over `rest`, `acc` being processed_responses
\* so far.
RECURSIVE process_responses_loop(_, _, _, _)
process_responses_loop(rest, id, survey_rec, acc) ==
    IF rest = <<>>
    THEN [raised |-> FALSE, headers |-> Headers(survey_rec), rows |-> acc]
    ELSE LET response == Head(rest)
         IN  IF WrongSurvey(response, id)
             THEN process_responses_loop(Tail(rest), id, survey_rec, acc)
             ELSE IF MissingLatitude(response)
             THEN process_responses_loop(Tail(rest), id, survey_rec, acc)
             ELSE IF ~(RowFields \subseteq DOMAIN response)
             THEN [raised |-> TRUE, headers |-> <<>>, rows |-> <<>>]
             ELSE process_responses_loop(Tail(rest), id, survey_rec,
                      Append(acc, AnswerRow(response, survey_rec)))

process_responses(raw_responses, id, survey_rec) ==
    process_responses_loop(raw_responses, id, survey_rec, <<>>)

----------------------------------------------------------------------------
(* main: the loop over the surveys *)

\* The body of the loop of main, for one item of surveys.items(): the sheet
\* is appended when the survey has a response.
RECURSIVE CollectSheets(_, _, _)
CollectSheets(items, raw_responses, acc) ==
    IF items = <<>> THEN [raised |-> FALSE, value |-> acc]
    ELSE LET item == Head(items)
             r == process_responses(raw_responses, item.key, item.value)
         IN  IF r.raised THEN [raised |-> TRUE, value |-> <<>>]
             ELSE CollectSheets(Tail(items), raw_responses,
                      IF r.rows # <<>>
                      THEN Append(acc, [name |-> item.value.name,
                                        headers |-> r.headers,
                                        responses |-> r.rows])
                      ELSE acc)

----------------------------------------------------------------------------
(* write_to_excel: the workbook *)

\* The title of the summary sheet and its header row, which the program
\* writes in Hebrew.
SummaryTitle == "Surveys"
SummaryHeader ==
    <<"Name", "Description", "Created at", "Number of questions", "Number of responses">>

\* responses = [r for s, _, r in sheets if s == survey['name']]
SheetsNamed(sheet_list, name) == SelectSeq(sheet_list, LAMBDA sh : sh.name = name)

\* The row of the summary sheet for one survey.
SummaryRow(survey_rec, sheet_list) ==
    [name |-> survey_rec.name,
     description |-> survey_rec.description,
     created_at |-> survey_rec.created_at,
     n_questions |-> Len(survey_rec.questions),
     n_responses |-> Len(SheetsNamed(sheet_list, survey_rec.name))]

\* No value is written for a header the row does not have.
CellOrNone(response, header) == Get(response, header, None)

\* sheet.cell(..., value=response.get(header, ""))
Cell(response, header) == Get(response, header, "")

\* The sheet of one entry of sheets: the headers, then one row per response
\* with one cell per header.
DetailSheet(sh) ==
    [title |-> sh.name,
     header |-> sh.headers,
     rows |-> [r \in DOMAIN sh.responses |->
                 [c \in DOMAIN sh.headers |-> Cell(sh.responses[r], sh.headers[c])]]]

\* The workbook: the summary sheet, then the sheets of `sheet_list` in order.
Workbook(items, sheet_list) ==
    <<[title |-> SummaryTitle,
       header |-> SummaryHeader,
       rows |-> [i \in DOMAIN items |-> SummaryRow(items[i].value, sheet_list)]]>>
    \o [i \in DOMAIN sheet_list |-> DetailSheet(sheet_list[i])]

----------------------------------------------------------------------------
(* The parts of the state a specification does not use stay as follows. *)

IdleFlatten ==
    /\ doc = EmptyDict /\ doc_id = "" /\ order = <<>>
    /\ flattened_doc = EmptyDict

IdleSurveys ==
    /\ surveys = <<>>
    /\ processed_surveys = [raised |-> FALSE, value |-> <<>>]

IdleJoin ==
    /\ responses = <<>> /\ survey_id = "" /\ survey = EmptyDict
    /\ joined = [raised |-> FALSE, headers |-> <<>>, rows |-> <<>>]

IdleRun ==
    /\ sheets = <<>> /\ wb = <<>> /\ files = {} /\ env = EmptyDict
    /\ uploads = {} /\ error = "" /\ steps = <<>>

----------------------------------------------------------------------------
(* The flattener on its own: a record is drawn, then flattened. *)

InitFlatten ==
    /\ IdleSurveys /\ IdleJoin /\ IdleRun
    /\ pc = "record"
    /\ \E P \in LeafSets : doc = RecordOf(P, <<>>)
    /\ doc_id \in DocIds
    /\ order \in {KeyOrder, Reverse(KeyOrder)}
    /\ flattened_doc = EmptyDict

FlattenDocument ==
    /\ pc = "record"
    /\ flattened_doc' = flatten_document(doc, doc_id, order)
    /\ pc' = "flattened"
    /\ UNCHANGED <<doc, doc_id, order, surveys, responses, processed_surveys,
                   survey_id, survey, joined, sheets, wb, files, env, uploads,
                   error, steps>>

NextFlatten == FlattenDocument

SpecFlatten == InitFlatten /\ [][NextFlatten]_vars

----------------------------------------------------------------------------
(* What the flattened record is compared with: the leaves of the raw record. *)

\* The key paths of the non-mapping leaves of d.
RECURSIVE LeavesOf(_)
LeavesOf(d) ==
    UNION {IF IsDict(d[k])
           THEN {<<k>> \o p : p \in LeavesOf(d[k].map)}
           ELSE {<<k>>} : k \in DOMAIN d}

\* The value of d at the key path p.
RECURSIVE ValueAt(_, _)
ValueAt(d, p) == IF Len(p) = 1 THEN d[p[1]] ELSE ValueAt(d[p[1]].map, Tail(p))

\* The keys of p joined with '.'.
RECURSIVE DottedPath(_)
DottedPath(p) ==
    IF Len(p) = 1 THEN p[1] ELSE p[1] \o "." \o DottedPath(Tail(p))

NoMappingValue == \A k \in DOMAIN flattened_doc : ~IsDict(flattened_doc[k])

\* Every leaf of L is in the flattened record under its dotted path, distinct
\* leaves under distinct keys, and the record holds nothing else but `id`.
EncodesLeaves(L) ==
    /\ \A p \in L :
        /\ DottedPath(p) \in DOMAIN flattened_doc
        /\ flattened_doc[DottedPath(p)] = ValueAt(doc, p)
    /\ \A p, q \in L : p # q => DottedPath(p) # DottedPath(q)
    /\ DOMAIN flattened_doc = {DottedPath(p) : p \in L} \cup {"id"}

IdIsDocumentId ==
    "id" \in DOMAIN flattened_doc /\ flattened_doc["id"] = [leaf |-> doc_id]

FlatRecordUnchanged ==
    (\A k \in DOMAIN doc : ~IsDict(doc[k])) =>
        /\ DOMAIN flattened_doc = DOMAIN doc \cup {"id"}
        /\ \A k \in DOMAIN doc \ {"id"} : flattened_doc[k] = doc[k]

NoDottedKey == \A p \in LeavesOf(doc) : \A i \in 1..Len(p) : p[i] \notin DottedKeys

\* The leaves the dotted paths have to encode: all but a top-level field
\* named `id`, whose key holds the document id.
EncodedLeaves == LeavesOf(doc) \ {<<"id">>}

\* C7 as stated: in every flattened record no value is a mapping, every
\* non-mapping leaf of the raw record appears exactly once under its key path
\* joined with '.', distinct leaves under distinct keys, `id` is the document
\* id, and a record without nested mappings is unchanged except for `id`.
C7_FlattenEncodesEveryLeaf ==
    pc = "flattened" =>
        /\ NoMappingValue
        /\ EncodesLeaves(EncodedLeaves)
        /\ IdIsDocumentId
        /\ FlatRecordUnchanged

\* C7 amended: no value is a mapping, `id` is the document id and a record
\* without nested mappings is unchanged except for `id`, for every record;
\* the dotted paths encode the leaves one to one when no field name of the
\* record holds the separator '.'.
C7_FlattenEncodesPlainKeys ==
    pc = "flattened" =>
        /\ NoMappingValue
        /\ IdIsDocumentId
        /\ FlatRecordUnchanged
        /\ NoDottedKey => EncodesLeaves(EncodedLeaves)

\* A record with a nested mapping next to a scalar, no dotted field name,
\* has been flattened.
C7_Witness ==
    /\ pc = "flattened"
    /\ NoDottedKey
    /\ Cardinality(LeavesOf(doc)) >= 2
    /\ \E p \in LeavesOf(doc) : Len(p) >= 2

----------------------------------------------------------------------------
(* The survey normalizer on its own: a list of flattened survey records is
   drawn, then process_surveys is applied to it. *)

MaxRawQuestions == 1
MaxRawSurveys == 2

\* The document ids of the surveys collection, by position: distinct, as the
\* ids of the documents of one collection are.
SurveyIdSeq == <<"s1", "s2", "s3", "s4">>

RawNames == Both(OptField("name.he", {"", "Seker"}), OptField("name.en", {"Survey"}))

RawDescriptions ==
    {EmptyDict,
     Update("description.he" :> "", "description.en" :> "Desc"),
     "description.he" :> "Teur"}

RawTexts == {Update("he" :> "", "en" :> "Question"), "he" :> "Sheela"}

RawQuestions == Both(OptField("id", {"q1"}), OptField("text", RawTexts))

RawSurveyFields ==
    Both(Both(RawNames, RawDescriptions),
         Both(OptField("questions", SeqsOf(RawQuestions, 0, MaxRawQuestions)),
              OptField("creationDateTime", {"T0"})))

\* Two fixed surveys, one that is kept and one that has no name.
FillerFields ==
    {EmptyDict,
     [k \in {"name.he", "questions", "creationDateTime"} |->
        CASE k = "name.he" -> "Seker"
          [] k = "questions" -> <<[id |-> "q1", text |-> [he |-> "Sheela"]]>>
          [] k = "creationDateTime" -> "T0"]}

\* flattened_doc['id'] = doc_snapshot.id, for the i-th document streamed.
WithId(fields, i) == Update(fields, "id" :> SurveyIdSeq[i])

InitSurveys ==
    /\ IdleFlatten /\ IdleJoin /\ IdleRun
    /\ pc = "surveys"
    \* any survey at one position v, fixed ones at the others
    /\ \/ surveys = <<>>
       \/ \E n \in 1..MaxRawSurveys : \E v \in 1..n :
             \E x \in RawSurveyFields, fl \in [1..n -> FillerFields] :
                surveys = [i \in 1..n |-> WithId(IF i = v THEN x ELSE fl[i], i)]
    /\ processed_surveys = [raised |-> FALSE, value |-> <<>>]

ProcessSurveys ==
    /\ pc = "surveys"
    /\ processed_surveys' = process_surveys(surveys)
    /\ pc' = "processed"
    /\ UNCHANGED <<doc, doc_id, order, flattened_doc, surveys, responses,
                   survey_id, survey, joined, sheets, wb, files, env, uploads,
                   error, steps>>

NextSurveys == ProcessSurveys

SpecSurveys == InitSurveys /\ [][NextSurveys]_vars

\* The localized-preference rule: the `he` value when present and non-empty,
\* else the `en` value, else the empty string.
Preferred(d, he, en) ==
    IF he \in DOMAIN d /\ d[he] # "" THEN d[he]
    ELSE IF en \in DOMAIN d THEN d[en] ELSE ""

RawQuestionsOf(s) == Get(s, "questions", <<>>)

Returned == pc = "processed" /\ ~processed_surveys.raised

Included(s) == HasKey(processed_surveys.value, s["id"])

\* C1: every name, description and question text is resolved by the
\* localized-preference rule (so a survey with an empty name.he and a name.en
\* is included under its name.en), and a missing key never raises.
C1_LocalizedPreference ==
    /\ pc = "processed" /\ processed_surveys.raised =>
          \E i \in DOMAIN surveys : "creationDateTime" \notin DOMAIN surveys[i]
    /\ Returned =>
          \A i \in DOMAIN surveys :
             LET s == surveys[i]
                 qs == RawQuestionsOf(s)
             IN  (/\ Preferred(s, "name.he", "name.en") # ""
                  /\ qs # <<>>
                  /\ "creationDateTime" \in DOMAIN s) =>
                   /\ Included(s)
                   /\ LET out == ItemOf(processed_surveys.value, s["id"])
                      IN  /\ out.name = Preferred(s, "name.he", "name.en")
                          /\ out.description =
                                Preferred(s, "description.he", "description.en")
                          /\ Len(out.questions) = Len(qs)
                          /\ \A j \in DOMAIN qs :
                                out.questions[j].text =
                                   Preferred(Get(qs[j], "text", EmptyDict), "he", "en")

\* A question with no id and no resolvable text.
Unusable(q) ==
    "id" \notin DOMAIN q /\ ResolveLocalized(Get(q, "text", EmptyDict), "he", "en") = ""

ResolvedNameEmpty(s) == ResolveLocalized(s, "name.he", "name.en") = ""

----------------------------------------------------------------------------
(* The response joiner and the sheet of one survey on their own: a survey and
   a list of flattened response records are drawn, process_responses is
   applied, and the workbook of that survey is built. *)

MaxJoinResponses == 4
MaxQuestions == 2
MaxAnswers == 3

QuestionIds == {"q1", "q2"}
AnswerValues == {"x", "y"}

\* The submission times of the responses, by position: distinct.
SubmittedTsSeq == <<"t1", "t2", "t3", "t4", "t5", "t6">>

\* The coordinates of a flattened response: both, none, or a latitude alone.
Coordinates(c) ==
    CASE c = "both" -> Update("coordinates.latitude" :> 31, "coordinates.longitude" :> 34)
      [] c = "none" -> EmptyDict
      [] c = "latitude" -> "coordinates.latitude" :> 31

\* The i-th response streamed: of survey sid, with coordinates c and the
\* fields `more`.
RawResponse(i, sid, c, more) ==
    Update(Update([k \in {"id", "surveyId", "submittedTs"} |->
                     CASE k = "id" -> "r" \o ToString(i)
                       [] k = "surveyId" -> sid
                       [] k = "submittedTs" -> SubmittedTsSeq[i]],
                  Coordinates(c)),
           more)

Answers == [questionId : QuestionIds, response : AnswerValues]

OneAnswer == "responses" :> <<[questionId |-> "q1", response |-> "x"]>>

NormalizedSurvey(questions) ==
    [name |-> "Seker", description |-> "", created_at |-> isoformat("T0"),
     questions |-> questions]

\* The questions of the survey: two of one text, two of one id, and one whose
\* text is the key of a fixed column.
Questions ==
    {[id |-> "q1", text |-> "T1"], [id |-> "q2", text |-> "T1"],
     [id |-> "q2", text |-> "T2"], [id |-> "q1", text |-> "lat"]}

InitJoin ==
    /\ IdleFlatten /\ IdleSurveys /\ IdleRun
    /\ pc = "responses"
    /\ survey_id = "s1"
    /\ \/ \* a list of responses of two surveys, with and without coordinates
          /\ survey = NormalizedSurvey(<<[id |-> "q1", text |-> "T1"]>>)
          /\ \E n \in 0..MaxJoinResponses :
                \E sid \in [1..n -> {"s1", "s2"}],
                   c \in [1..n -> {"both", "none", "latitude"}] :
                   responses = [i \in 1..n |-> RawResponse(i, sid[i], c[i], OneAnswer)]
       \/ \* one response of the survey, with coordinates and any list of answers
          /\ \E qs \in SeqsOf(Questions, 1, MaxQuestions) : survey = NormalizedSurvey(qs)
          /\ \E more \in OptField("responses", SeqsOf(Answers, 0, MaxAnswers)) :
                responses = <<RawResponse(1, "s1", "both", more)>>
    /\ joined = [raised |-> FALSE, headers |-> <<>>, rows |-> <<>>]

ProcessResponses ==
    /\ pc = "responses"
    /\ joined' = process_responses(responses, survey_id, survey)
    /\ pc' = "joined"
    /\ UNCHANGED <<doc, doc_id, order, flattened_doc, surveys, responses,
                   processed_surveys, survey_id, survey, sheets, wb, files,
                   env, uploads, error, steps>>

\* The rest of the loop body of main for this survey, and the workbook of
\* write_to_excel.
WriteSheets ==
    /\ pc = "joined"
    /\ ~joined.raised
    /\ LET collected == CollectSheets(<<[key |-> survey_id, value |-> survey]>>,
                                      responses, <<>>)
       IN  /\ sheets' = collected.value
           /\ wb' = Workbook(<<[key |-> survey_id, value |-> survey]>>, collected.value)
    /\ pc' = "written"
    /\ UNCHANGED <<doc, doc_id, order, flattened_doc, surveys, responses,
                   processed_surveys, survey_id, survey, joined, files, env,
                   uploads, error, steps>>

NextJoin == ProcessResponses \/ WriteSheets

SpecJoin == InitJoin /\ [][NextJoin]_vars

\* A response of the survey under processing that has a latitude.
Valid(response) ==
    response["surveyId"] = survey_id /\ "coordinates.latitude" \in DOMAIN response

\* The positions of the valid responses, in iteration order.
ValidPositions ==
    SelectSeq([i \in DOMAIN responses |-> i], LAMBDA i : Valid(responses[i]))

AnswersOfRow(k) == Get(responses[ValidPositions[k]], "responses", <<>>)
Matches(k, q) == {n \in DOMAIN AnswersOfRow(k) : AnswersOfRow(k)[n]["questionId"] = q.id}

\* The detail sheet of the survey, when it has one.
Written == pc = "written" /\ joined.rows # <<>>
DetailOfSurvey == wb[2]
FixedColumns == {"time", "lat", "lon"}

\* C4 as stated, for the questions whose text is not the key of a fixed
\* column: when two or more answers of a response have the id of a question
\* of the survey, the row has no column for that question and the sheet holds
\* the empty string there; the column of a question carries a value only when
\* exactly one answer matches that question.
C4_AmbiguousAnswerAbsent ==
    Written =>
        \A k \in DOMAIN joined.rows : \A j \in DOMAIN survey.questions :
           LET q == survey.questions[j]
           IN  q.text \notin FixedColumns =>
                 /\ Cardinality(Matches(k, q)) >= 2 =>
                       /\ q.text \notin DOMAIN joined.rows[k]
                       /\ DetailOfSurvey.rows[k][3 + j] = ""
                 /\ q.text \in DOMAIN joined.rows[k] => Cardinality(Matches(k, q)) = 1

\* The questions with the text t that exactly one answer of row k matches.
Carrying(k, t) ==
    {j \in DOMAIN survey.questions :
        survey.questions[j].text = t /\ Cardinality(Matches(k, survey.questions[j])) = 1}

Last(S) == CHOOSE j \in S : \A i \in S : i <= j

\* C4 amended: the row is keyed by question text, so the above holds of a
\* question whose text is none of time, lat, lon: its column is in the row
\* exactly when one answer matches some question of that text, it then holds
\* the answer to the last such question, and otherwise the sheet holds the
\* empty string there; no answer is picked among two or more matching ones.
C4_AmbiguousAnswerAbsentPerText ==
    Written =>
        \A k \in DOMAIN joined.rows : \A j \in DOMAIN survey.questions :
           LET q == survey.questions[j]
               row == joined.rows[k]
           IN  q.text \notin FixedColumns =>
                 /\ q.text \in DOMAIN row <=> Carrying(k, q.text) # {}
                 /\ Carrying(k, q.text) # {} =>
                       LET last == survey.questions[Last(Carrying(k, q.text))]
                       IN  /\ row[q.text] =
                                AnswersOfRow(k)[CHOOSE n \in Matches(k, last) : TRUE]["response"]
                           /\ DetailOfSurvey.rows[k][3 + j] = row[q.text]
                 /\ Carrying(k, q.text) = {} => DetailOfSurvey.rows[k][3 + j] = ""

\* A response answered one question twice, differently, and another once:
\* the sheet holds the empty string for the first and the answer for the
\* second.
C4_Witness ==
    /\ Written
    /\ \E j1, j2 \in DOMAIN survey.questions :
          /\ survey.questions[j1].text \notin FixedColumns
          /\ survey.questions[j2].text \notin FixedColumns
          /\ Cardinality(Matches(1, survey.questions[j1])) >= 2
          /\ \E m, n \in Matches(1, survey.questions[j1]) :
                AnswersOfRow(1)[m]["response"] # AnswersOfRow(1)[n]["response"]
          /\ Cardinality(Matches(1, survey.questions[j2])) = 1
          /\ DetailOfSurvey.rows[1][3 + j1] = ""
          /\ DetailOfSurvey.rows[1][3 + j2] # ""

\* C5: every row of a detail sheet has one written cell per header, the
\* headers being time, lat, lon and the question texts in order; the cell of
\* a header the row has no value for holds the empty string.
C5_Rectangular ==
    Written =>
        /\ Len(wb) = 2
        /\ DetailOfSurvey.header =
              <<"time", "lat", "lon">> \o
              [j \in DOMAIN survey.questions |-> survey.questions[j].text]
        /\ Len(DetailOfSurvey.rows) = Len(joined.rows)
        /\ \A r \in DOMAIN DetailOfSurvey.rows :
              /\ DOMAIN DetailOfSurvey.rows[r] = 1..Len(DetailOfSurvey.header)
              /\ \A c \in DOMAIN DetailOfSurvey.header :
                    LET h == DetailOfSurvey.header[c]
                        cell == DetailOfSurvey.rows[r][c]
                    IN  /\ cell # None
                        /\ h \notin DOMAIN joined.rows[r] => cell = ""
                        /\ h \in DOMAIN joined.rows[r] => cell = joined.rows[r][h]

\* A sheet was written whose row has no value for one of two questions.
C5_Witness ==
    /\ Written
    /\ Len(survey.questions) >= 2
    /\ \E c \in DOMAIN DetailOfSurvey.header :
          DetailOfSurvey.header[c] \notin DOMAIN joined.rows[1]
    /\ \E c \in 4..Len(DetailOfSurvey.header) :
          DetailOfSurvey.header[c] \in DOMAIN joined.rows[1]

----------------------------------------------------------------------------
(* The run: main, from the read of Firestore to the upload. *)

MaxSurveys == 2
MaxResponses == 2

\* The file is uploaded before it is saved.
ProgramOrderUploadFirst ==
    <<"read", "process_surveys", "process_responses", "build",
      "folder", "credentials", "upload", "save">>

\* The steps of main and of write_to_excel, in the order of their statements:
\* read_firestore_subcollections, process_surveys, the loop of
\* process_responses, the workbook, wb.save, os.getenv('DRIVE_FOLDER_ID'),
\* the credentials, the upload.
ProgramOrder ==
    <<"read", "process_surveys", "process_responses", "build",
      "save", "folder", "credentials", "upload">>

\* The position after `step` has completed.
Following(step) ==
    LET i == CHOOSE n \in DOMAIN ProgramOrder : ProgramOrder[n] = step
    IN  IF i = Len(ProgramOrder) THEN "done" ELSE ProgramOrder[i + 1]

\* f'yallanegev-{current_date}.xlsx'
OutputFilename(current_date) == "yallanegev-" \o current_date \o ".xlsx"
Today == "2024-01-01"

AttributeErrorMessage == "'NoneType' object has no attribute 'strip'"
KeyErrorMessage == "KeyError"
CredentialsMessage ==
    "Credentials file not found or GOOGLE_APPLICATION_CREDENTIALS environment variable is not set."

\* The surveys collection holds surveys named A or B, unnamed ones, and ones
\* without creation time.
RunSurveyFields ==
    LET named(n) == [k \in {"name.he", "questions", "creationDateTime"} |->
                        CASE k = "name.he" -> n
                          [] k = "questions" -> <<[id |-> "q1", text |-> [he |-> "T1"]]>>
                          [] k = "creationDateTime" -> "T0"]
    IN  {EmptyDict, named("A"), named("B"),
         [k \in {"name.he", "questions"} |-> named("A")[k]]}

Init ==
    /\ IdleFlatten /\ IdleSurveys /\ IdleJoin /\ IdleRun
    /\ pc = "read"

\* data_dict = read_firestore_subcollections(document_path): the flattened
\* documents of the sub-collections.
ReadFirestore ==
    /\ pc = "read"
    /\ \E n \in 0..MaxSurveys : \E f \in [1..n -> RunSurveyFields] :
          surveys' = [i \in 1..n |-> WithId(f[i], i)]
    /\ \E n \in 0..MaxResponses :
          \E sid \in [1..n -> {"s1", "s2"}],
             c \in [1..n -> {"both", "none", "latitude"}] :
             responses' = [i \in 1..n |-> RawResponse(i, sid[i], c[i], OneAnswer)]
    /\ pc' = Following("read")
    /\ steps' = Append(steps, "read")
    /\ UNCHANGED <<doc, doc_id, order, flattened_doc, processed_surveys,
                   survey_id, survey, joined, sheets, wb, files, env, uploads,
                   error>>

\* surveys = process_surveys(data_dict.get('surveys', []))
NormalizeSurveys ==
    /\ pc = "process_surveys"
    /\ processed_surveys' = process_surveys(surveys)
    /\ IF processed_surveys'.raised
       THEN pc' = "failed" /\ error' = KeyErrorMessage
       ELSE pc' = Following("process_surveys") /\ error' = error
    /\ steps' = Append(steps, "process_surveys")
    /\ UNCHANGED <<doc, doc_id, order, flattened_doc, surveys, responses,
                   survey_id, survey, joined, sheets, wb, files, env, uploads>>

\* The loop of main over surveys.items().
JoinResponses ==
    /\ pc = "process_responses"
    /\ LET collected == CollectSheets(processed_surveys.value, responses, <<>>)
       IN  IF collected.raised
           THEN pc' = "failed" /\ error' = KeyErrorMessage /\ sheets' = sheets
           ELSE /\ pc' = Following("process_responses")
                /\ error' = error
                /\ sheets' = collected.value
    /\ steps' = Append(steps, "process_responses")
    /\ UNCHANGED <<doc, doc_id, order, flattened_doc, surveys, responses,
                   processed_surveys, survey_id, survey, joined, wb, files,
                   env, uploads>>

\* write_to_excel, to the last fix_sheet.
BuildWorkbook ==
    /\ pc = "build"
    /\ wb' = Workbook(processed_surveys.value, sheets)
    /\ pc' = Following("build")
    /\ steps' = Append(steps, "build")
    /\ UNCHANGED <<doc, doc_id, order, flattened_doc, surveys, responses,
                   processed_surveys, survey_id, survey, joined, sheets, files,
                   env, uploads, error>>

\* wb.save(output_filename)
SaveWorkbook ==
    /\ pc = "save"
    /\ files' = files \cup {[name |-> OutputFilename(Today), content |-> wb]}
    /\ pc' = Following("save")
    /\ steps' = Append(steps, "save")
    /\ UNCHANGED <<doc, doc_id, order, flattened_doc, surveys, responses,
                   processed_surveys, survey_id, survey, joined, sheets, wb,
                   env, uploads, error>>

\* DRIVE_FOLDER = os.getenv('DRIVE_FOLDER_ID').strip(): os.getenv gives None
\* when the variable is not set, and None has no strip.
ReadFolderId ==
    /\ pc = "folder"
    /\ \E e \in OptField("DRIVE_FOLDER_ID", {"folders/f1"}) :
          /\ env' = Update(env, e)
          /\ IF "DRIVE_FOLDER_ID" \notin DOMAIN e
             THEN pc' = "failed" /\ error' = AttributeErrorMessage
             ELSE pc' = Following("folder") /\ error' = error
    /\ steps' = Append(steps, "folder")
    /\ UNCHANGED <<doc, doc_id, order, flattened_doc, surveys, responses,
                   processed_surveys, survey_id, survey, joined, sheets, wb,
                   files, uploads>>

\* credentials_path = os.getenv('GOOGLE_APPLICATION_CREDENTIALS'); the file
\* at that path exists or not.
LoadCredentials ==
    /\ pc = "credentials"
    /\ \E e \in OptField("GOOGLE_APPLICATION_CREDENTIALS", {"creds.json", "missing.json"}) :
          /\ env' = Update(env, e)
          /\ IF "GOOGLE_APPLICATION_CREDENTIALS" \in DOMAIN e
                /\ e["GOOGLE_APPLICATION_CREDENTIALS"] = "creds.json"
             THEN pc' = Following("credentials") /\ error' = error
             ELSE pc' = "failed" /\ error' = CredentialsMessage
    /\ steps' = Append(steps, "credentials")
    /\ UNCHANGED <<doc, doc_id, order, flattened_doc, surveys, responses,
                   processed_surveys, survey_id, survey, joined, sheets, wb,
                   files, uploads>>

\* service.files().create(...).execute()
Upload ==
    /\ pc = "upload"
    /\ uploads' = uploads \cup {OutputFilename(Today)}
    /\ pc' = Following("upload")
    /\ steps' = Append(steps, "upload")
    /\ UNCHANGED <<doc, doc_id, order, flattened_doc, surveys, responses,
                   processed_surveys, survey_id, survey, joined, sheets, wb,
                   files, env, error>>

Next ==
    \/ ReadFirestore
    \/ NormalizeSurveys
    \/ JoinResponses
    \/ BuildWorkbook
    \/ SaveWorkbook
    \/ ReadFolderId
    \/ LoadCredentials
    \/ Upload

Spec == Init /\ [][Next]_vars

\* The workbook of the run has been built.
Built == wb # <<>>
Summary == wb[1]
Details == Tail(wb)

\* The valid responses of a normalized survey: those with its id that have a
\* latitude.
ValidResponsesOf(id) ==
    {i \in DOMAIN responses :
        responses[i]["surveyId"] = id /\ "coordinates.latitude" \in DOMAIN responses[i]}

\* The normalized surveys that have a valid response, in order.
Answered ==
    SelectSeq(processed_surveys.value, LAMBDA item : ValidResponsesOf(item.key) # {})

\* C6: the workbook has one summary sheet with one row per normalized survey
\* and one detail sheet for each normalized survey with a valid response, none
\* for the others; a survey without valid response is in the summary with the
\* response count 0.
C6_WorkbookComposition ==
    Built =>
        /\ Summary.title = SummaryTitle
        /\ Len(Summary.rows) = Len(processed_surveys.value)
        /\ Len(Details) = Len(Answered)
        /\ \A d \in DOMAIN Details :
              /\ Details[d].title = Answered[d].value.name
              /\ Len(Details[d].rows) = Cardinality(ValidResponsesOf(Answered[d].key))
        /\ \A n \in DOMAIN processed_surveys.value :
              /\ Summary.rows[n].name = processed_surveys.value[n].value.name
              /\ ValidResponsesOf(processed_surveys.value[n].key) = {} =>
                    Summary.rows[n].n_responses = 0

\* C10: the response count of a survey in the summary sheet is the number of
\* its valid responses, the number of rows of its detail sheet.
C10_SummaryCountsResponses ==
    Built =>
        \A n \in DOMAIN processed_surveys.value :
           Summary.rows[n].n_responses =
              Cardinality(ValidResponsesOf(processed_surveys.value[n].key))

\* The run failed for its configuration: the folder id or the credentials.
ConfigurationFailure ==
    /\ pc = "failed"
    /\ steps # <<>>
    /\ steps[Len(steps)] \in {"folder", "credentials"}

\* The messages that name the missing precondition.
DescriptiveMessages == {CredentialsMessage}

\* C8: a run whose credentials path is missing or whose folder id is not set
\* ends in failure with a message naming what is missing, has uploaded
\* nothing and has written no output file.
C8_ConfigurationFailureIsClean ==
    ConfigurationFailure =>
        /\ error \in DescriptiveMessages
        /\ uploads = {}
        /\ files = {}

\* The rank of a step in the pipeline: the read, the transforms, the
\* serialization, the upload with its configuration.
Rank(step) ==
    CASE step = "read" -> 1
      [] step \in {"process_surveys", "process_responses", "build"} -> 2
      [] step = "save" -> 3
      [] step \in {"folder", "credentials", "upload"} -> 4

Executed(step) == \E i \in DOMAIN steps : steps[i] = step

\* C9: the read completes before any transform, the transforms before the
\* serialization, the serialization before the upload; no step is executed
\* out of this order, and none twice.
C9_PipelineOrder ==
    /\ \A i, j \in DOMAIN steps :
          i < j => steps[i] # steps[j] /\ Rank(steps[i]) <= Rank(steps[j])
    /\ Executed("process_surveys") => Executed("read")
    /\ Executed("process_responses") => Executed("process_surveys")
    /\ Executed("build") => Executed("process_responses")
    /\ Executed("save") => Executed("build") /\ wb # <<>>
    /\ Executed("upload") => Executed("save") /\ files # {}
    /\ uploads # {} => Executed("upload") /\ uploads \subseteq {f.name : f \in files}

\* A run has uploaded its file.
C9_Witness ==
    /\ pc = "done"
    /\ uploads # {}
    /\ Len(steps) = Len(ProgramOrder)
    /\ Len(wb) >= 2

=============================================================================
